---- MODULE Spec2Model ----
(***************************************************************************)
(* Model of server_relay.py: a Flask-SocketIO relay (async_mode            *)
(* "threading") that groups comments into sessions, keeps one SQLite file  *)
(* per session and a process-wide cache message_logs guarded by            *)
(* storage_lock.                                                           *)
(*                                                                         *)
(* Strings the code inspects character by character (session names, time   *)
(* stamps) are sequences of one-character strings; strings the code only   *)
(* copies (names, texts, file names) are TLA+ strings.                     *)
(***************************************************************************)
EXTENDS Integers, Sequences, FiniteSets, TLC

VARIABLES
    message_logs,   \* dict: session key -> list of entries (line 34)
    storage_lock,   \* threading.Lock: the holding thread, or NoThread (line 33)
    db,             \* the SQLite file behind each db path
    room,           \* per connection: the rooms join_room put it in
    args,           \* per connection: request.args of its handshake
    inbox,          \* per connection: the events emitted to it, in order
    th,             \* per handler thread: where it is and its locals
    indicator,      \* what the status window shows
    hist,           \* history variables, read only by the properties
    san             \* state of the sanitizer harness (SanSpec)

vars == <<message_logs, storage_lock, db, room, args, inbox, th, indicator, hist, san>>

----------------------------------------------------------------------------
(* Bounds *)

MaxEvents == 3      \* requests, socket events and timer firings handled in one run
MaxRun == 65        \* sanitizer harness: longest run of one character
MaxTail == 2        \* sanitizer harness: longest free tail after the run

(* Program constants *)

MaxKeyLen == 64     \* s[:64]

----------------------------------------------------------------------------
(* Characters and strings *)

Digits == {"0","1","2","3","4","5","6","7","8","9"}

Letters ==
    {"a","b","c","d","e","f","g","h","i","j","k","l","m",
     "n","o","p","q","r","s","t","u","v","w","x","y","z",
     "A","B","C","D","E","F","G","H","I","J","K","L","M",
     "N","O","P","Q","R","S","T","U","V","W","X","Y","Z"}

\* the character class [A-Za-z0-9_\-] of line 39
KeyChars == Letters \cup Digits \cup {"_", "-"}

\* Python's None and "key not in the dict", for the character strings ...
None == <<"<None>">>
Missing == <<"<missing>">>
\* ... and for the strings the code only copies
StrNone == "<None>"
StrMissing == "<missing>"

\* truth value of an optional character string: None and "" are falsy
Truthy(v) == v # None /\ v # Missing /\ v # <<>>

\* truth value of an optional copied string
StrTruthy(v) == v # StrNone /\ v # StrMissing /\ v # ""

\* dict.get(key, default) on the value found under the key
Get(v, default) == IF v = Missing THEN default ELSE v
StrGet(v, default) == IF v = StrMissing THEN default ELSE v

----------------------------------------------------------------------------
(* sanitize_session, lines 36-43 *)

\* re.sub(r"[^A-Za-z0-9_\-]+", "_", value): every maximal run of characters
\* outside the class becomes one "_"
RECURSIVE ReSubRuns(_, _)
ReSubRuns(value, inRun) ==
    IF value = <<>> THEN <<>>
    ELSE IF Head(value) \in KeyChars
         THEN <<Head(value)>> \o ReSubRuns(Tail(value), FALSE)
         ELSE IF inRun THEN ReSubRuns(Tail(value), TRUE)
              ELSE <<"_">> \o ReSubRuns(Tail(value), TRUE)

RECURSIVE LStrip(_)
LStrip(s) == IF s # <<>> /\ Head(s) = "_" THEN LStrip(Tail(s)) ELSE s

RECURSIVE RStrip(_)
RStrip(s) ==
    IF s # <<>> /\ s[Len(s)] = "_" THEN RStrip(SubSeq(s, 1, Len(s) - 1)) ELSE s

\* s.strip("_")
Strip(s) == RStrip(LStrip(s))

\* s[:n]
Slice(s, n) == SubSeq(s, 1, IF Len(s) < n THEN Len(s) ELSE n)

DefaultKey == <<"d","e","f","a","u","l","t">>

SanitizeCutsBeforeStrip(value) ==
    IF ~Truthy(value) THEN DefaultKey
    ELSE LET s == Strip(Slice(ReSubRuns(value, FALSE), MaxKeyLen))
         IN  IF s = <<>> THEN DefaultKey ELSE s

sanitize_session(value) ==
    IF ~Truthy(value) THEN DefaultKey
    ELSE LET s == Strip(ReSubRuns(value, FALSE))
         IN  IF s = <<>> THEN DefaultKey ELSE Slice(s, MaxKeyLen)

----------------------------------------------------------------------------
(* to_hhmm, lines 66-74 *)

DigitVal(c) ==
    CASE c = "0" -> 0 [] c = "1" -> 1 [] c = "2" -> 2 [] c = "3" -> 3
      [] c = "4" -> 4 [] c = "5" -> 5 [] c = "6" -> 6 [] c = "7" -> 7
      [] c = "8" -> 8 [] c = "9" -> 9

DigitChar(n) == <<"0","1","2","3","4","5","6","7","8","9">>[n + 1]

IsDigitAt(v, i) == i >= 1 /\ i <= Len(v) /\ v[i] \in Digits
IsColonAt(v, i) == i >= 1 /\ i <= Len(v) /\ v[i] = ":"

\* (\d{1,2}):(\d{2}) matched at position i, two hour digits tried first
Match2At(v, i) ==
    /\ IsDigitAt(v, i) /\ IsDigitAt(v, i + 1) /\ IsColonAt(v, i + 2)
    /\ IsDigitAt(v, i + 3) /\ IsDigitAt(v, i + 4)
Match1At(v, i) ==
    /\ IsDigitAt(v, i) /\ IsColonAt(v, i + 1)
    /\ IsDigitAt(v, i + 2) /\ IsDigitAt(v, i + 3)

\* f"{h:02d}"
Fmt02(h) ==
    IF h < 10 THEN <<"0", DigitChar(h)>>
    ELSE <<DigitChar(h \div 10), DigitChar(h % 10)>>

to_hhmm(value) ==
    IF ~Truthy(value) THEN <<>>
    ELSE LET hits == {i \in 1..Len(value) : Match2At(value, i) \/ Match1At(value, i)}
         IN  IF hits = {} THEN value
             ELSE LET i == CHOOSE j \in hits : \A l \in hits : j <= l
                      two == Match2At(value, i)
                      h == IF two THEN 10 * DigitVal(value[i]) + DigitVal(value[i + 1])
                                  ELSE DigitVal(value[i])
                      m == IF two THEN i + 3 ELSE i + 2
                  IN  Fmt02(h) \o <<":">> \o SubSeq(value, m, m + 1)

----------------------------------------------------------------------------
(* The universe of one run *)

\* handler threads and socket connections are numbered in the order they
\* come into use
Threads == 1..2
NoThread == 0
Conns == 1..2
Http == 0               \* the requester of GET /, not a socket connection

RoomA_raw == <<"R","o","o","m"," ","A","!","!">>
RoomA == <<"R","o","o","m","_","A">>

\* ?session=... of a socket handshake, and of a page request
QuerySessions == {<<>>, RoomA_raw}
PageSessions == {Missing, RoomA_raw}
\* "session" of an event payload
PayloadSessions == {Missing, RoomA_raw}

Keys == {sanitize_session(r) : r \in QuerySessions \cup PageSessions \cup PayloadSessions} \cup {DefaultKey}

\* datetime.now(JST).strftime("%H:%M")
NowValues == {<<"0","9",":","0","5">>}

\* a value sqlite3 cannot bind as a parameter (a JSON object or array)
Unbindable == "<dict>"

\* data.get("name", "名無し"): the default display name, romanised
NanashiName == "nanashi"

\* event payloads: a dict with its fields, or something that is no dict
Payload(sess, n, x, st) ==
    [is_dict |-> TRUE, session |-> sess, name |-> n, real_name |-> StrMissing,
     text |-> x, stamp |-> st, stamp_filename |-> StrMissing]

NotADict ==
    [is_dict |-> FALSE, session |-> Missing, name |-> StrMissing,
     real_name |-> StrMissing, text |-> StrMissing, stamp |-> StrMissing,
     stamp_filename |-> StrMissing]

Payloads ==
    { Payload(Missing, "Al", "hi", StrMissing),
      Payload(RoomA_raw, "Al", "hi", StrMissing),
      Payload(Missing, StrMissing, "yo", "ok.png"),
      Payload(Missing, "Al", "hi", "gone.png"),
      Payload(Missing, Unbindable, "hi", StrMissing),
      NotADict }

\* what os.listdir(static/stamp) can show; NoFolder: the folder is no directory
NoFolder == {[f |-> "<nodir>", ext |-> "", isfile |-> FALSE]}
Folders ==
    { NoFolder,
      { [f |-> "ok.png", ext |-> ".png", isfile |-> TRUE],
        [f |-> "a.GIF", ext |-> ".GIF", isfile |-> TRUE],
        [f |-> "notes.txt", ext |-> ".txt", isfile |-> TRUE],
        [f |-> "gone.png", ext |-> ".png", isfile |-> FALSE] } }

----------------------------------------------------------------------------
(* The per-session SQLite file *)

\* db_path_for, lines 45-46
BASE_DIR == <<"/","s","r","v","/">>
db_path_for(session_name) == BASE_DIR \o session_name \o <<".","d","b">>

Paths == {db_path_for(k) : k \in Keys}

BaseCols == {"id", "name", "real_name", "text", "time"}
AllCols == BaseCols \cup {"stamp_filename"}

\* a file sqlite3.connect has just created: no table, no sqlite_sequence row
EmptyFile == [cols |-> {}, rows |-> {}, seq |-> 0]

CreatesAlways(f) == TRUE

\* does CREATE TABLE IF NOT EXISTS create the table in file f
Creates(f) == f.cols = {}

\* init_db_for, lines 48-64: the file after the call
init_db_for(f) ==
    LET created == IF Creates(f) THEN [f EXCEPT !.cols = AllCols, !.rows = {}] ELSE f
    IN  IF "stamp_filename" \notin created.cols
        THEN [created EXCEPT !.cols = @ \cup {"stamp_filename"}]
        ELSE created

\* init_db_for raises: at sqlite3.connect or at CREATE TABLE (line 49-59,
\* the file is as it was), or at PRAGMA or ALTER TABLE (lines 60-62, the
\* CREATE TABLE statement has run; sqlite3 opens no transaction for it)
InitFailureFiles(f) ==
    {f, IF Creates(f) THEN [f EXCEPT !.cols = AllCols, !.rows = {}] ELSE f}

\* rows of a table as a sequence in ascending id
RECURSIVE OrderByIdAsc(_)
OrderByIdAsc(rows) ==
    IF rows = {} THEN <<>>
    ELSE LET r == CHOOSE x \in rows : \A y \in rows : x.id <= y.id
         IN  <<r>> \o OrderByIdAsc(rows \ {r})

RECURSIVE OrderByIdDesc(_)
OrderByIdDesc(rows) ==
    IF rows = {} THEN <<>>
    ELSE LET r == CHOOSE x \in rows : \A y \in rows : x.id >= y.id
         IN  <<r>> \o OrderByIdDesc(rows \ {r})

\* f"/static/stamp/{stamp}" if stamp else None
StampUrl(stamp) == IF StrTruthy(stamp) THEN "/static/stamp/" \o stamp ELSE StrNone

\* the dict built from one row, lines 82-90
RowToEntry(r) ==
    [name |-> r.name, real_name |-> r.real_name, text |-> r.text,
     time |-> to_hhmm(r.time), stamp |-> r.stamp_filename,
     stamp_url |-> StampUrl(r.stamp_filename)]

FetchNewestFirst(f) ==
    LET rows == OrderByIdDesc(f.rows)
    IN  [i \in 1..Len(rows) |-> RowToEntry(rows[i])]

\* fetch_all_for, lines 76-91
fetch_all_for(f) ==
    LET rows == OrderByIdAsc(f.rows)
    IN  [i \in 1..Len(rows) |-> RowToEntry(rows[i])]

\* can sqlite3 bind the five parameters of line 97
Bindable(entry) ==
    /\ entry.name # Unbindable /\ entry.real_name # Unbindable
    /\ entry.text # Unbindable /\ entry.stamp # Unbindable

MaxId(rows) == IF rows = {} THEN 0 ELSE CHOOSE m \in {r.id : r \in rows} : \A r \in rows : r.id <= m

\* the id AUTOINCREMENT gives the next row
NextId(f) == (IF f.seq > MaxId(f.rows) THEN f.seq ELSE MaxId(f.rows)) + 1

InsertOverLastRow(f, entry) ==
    LET last == IF f.rows = {} THEN 1 ELSE MaxId(f.rows)
    IN  [f EXCEPT !.rows = {r \in @ : r.id # last}
                            \cup {[id |-> last, name |-> entry.name,
                                   real_name |-> entry.real_name, text |-> entry.text,
                                   time |-> entry.time, stamp_filename |-> entry.stamp]},
                  !.seq = last]

\* insert_comment_for, lines 93-100: the file after a committed insert
insert_comment_for(f, entry) ==
    [f EXCEPT !.rows = @ \cup {[id |-> NextId(f), name |-> entry.name,
                                real_name |-> entry.real_name, text |-> entry.text,
                                time |-> entry.time, stamp_filename |-> entry.stamp]},
              !.seq = NextId(f)]

\* list_stamps, lines 111-124
Lower(ext) ==
    CASE ext = ".PNG" -> ".png" [] ext = ".GIF" -> ".gif" [] ext = ".JPG" -> ".jpg"
      [] OTHER -> ext

AllowedExt == {".png", ".jpg", ".jpeg", ".gif", ".webp", ".svg"}

\* the names list_stamps returns for a folder (line 195 only uses them as a set)
list_stamps(folder) ==
    IF folder = NoFolder THEN {}
    ELSE {e.f : e \in {x \in folder : x.isfile /\ Lower(x.ext) \in AllowedExt}}

----------------------------------------------------------------------------
(* State *)

NoEntry ==
    [name |-> StrNone, real_name |-> StrNone, text |-> StrNone, time |-> <<>>,
     stamp |-> StrNone, stamp_url |-> StrNone]

\* a thread that runs no handler
Idle ==
    [pc |-> "idle", kind |-> "none", conn |-> Http, data |-> NotADict,
     session_key |-> <<>>, path |-> <<>>,
     now_hhmm |-> <<>>, entry |-> NoEntry, msgs |-> <<>>,
     \* for the properties: the number of the submission, the payload's
     \* session, and whether the key was not cached when the handler began
     sub |-> 0, explicit |-> Missing, unseen |-> FALSE]

Closed == [open |-> FALSE, session |-> Missing]

\* files left by earlier runs of this program or of an older version of it
LegacyRow ==
    [id |-> 1, name |-> "Bo", real_name |-> "", text |-> "old",
     time |-> <<"9",":","0","5">>, stamp_filename |-> StrNone]
\* default.db was left by an older version (no stamp column, h:mm times);
\* no other session has a file yet
InitialDbs ==
    { [p \in Paths |-> IF p = db_path_for(DefaultKey)
                       THEN [cols |-> BaseCols, rows |-> {LegacyRow}, seq |-> 1]
                       ELSE EmptyFile] }

SanIdle == [pc |-> "off", x |-> <<>>, y |-> <<>>, z |-> <<>>]

Init ==
    /\ message_logs = [k \in {} |-> <<>>]
    /\ storage_lock = NoThread
    /\ db \in InitialDbs
    /\ room = [c \in Conns |-> {}]
    /\ args = [c \in Conns |-> Closed]
    /\ inbox = [c \in Conns \cup {Http} |-> <<>>]
    /\ th = [t \in Threads |-> Idle]
    /\ indicator = [total_msgs |-> 0, session_count |-> 0]
    /\ hist = [nsub |-> 0, nevents |-> 0,
               db0 |-> db,
               loads |-> [k \in Keys |-> 0],
               init_calls |-> [p \in Paths |-> 0],
               creates |-> [p \in Paths |-> 0],
               tag |-> [k \in Keys |-> <<>>],
               appends |-> [p \in Paths |-> <<>>],
               bcasts |-> <<>>,
               subkey |-> <<>>,
               issued |-> {},
               failed |-> {},
               key_errors |-> 0,
               listed |-> {},
               snapped |-> {},
               joinsnap |-> [c \in Conns |-> {}],
               snapat |-> [c \in Conns |-> 0]]
    /\ san = SanIdle

----------------------------------------------------------------------------
(* Helpers of the handlers *)

\* request.args.get("session", "default")
ArgsSession(q) == Get(q, DefaultKey)

ResolveRawHandshakeOnly(data, q) == ArgsSession(q)

\* lines 173-177 and 186-190: the payload's session, else the handshake's
ResolveRaw(data, q) ==
    LET raw_session == IF data.is_dict THEN Get(data.session, None) ELSE None
    IN  IF ~Truthy(raw_session) THEN ArgsSession(q) ELSE raw_session

\* the query string of the request a handler serves
QueryOf(c) == args[c].session

\* the handshake of c is over: its connect handler has returned
Connected(c) == args[c].open /\ \A t \in Threads : ~(th[t].kind = "connect" /\ th[t].conn = c)

AcquiresUnlocked(t) == TRUE

\* storage_lock.acquire() returns only when no thread holds the lock
Acquires(t) == storage_lock = NoThread

DictReplacedBy(d, key, value) == [k \in {key} |-> value]

\* dict assignment message_logs[key] = value
DictSet(d, key, value) ==
    [k \in DOMAIN d \cup {key} |-> IF k = key THEN value ELSE d[k]]

\* where a handler goes on after ensure_session returned
AfterEnsure(kind) ==
    CASE kind = "index" -> "snapshot"
      [] kind = "connect" -> "join"
      [] kind = "history_request" -> "snapshot"
      [] kind = "new_comment" -> "build"

Finish(t) == th' = [th EXCEPT ![t] = Idle]

----------------------------------------------------------------------------
(* Handlers up to the end of line 105: the raw session is resolved (lines    *)
(* 150, 163, 173-177, 185-190) and ensure_session derives the key and the    *)
(* path and calls init_db_for, which returns (ok) or raises a sqlite3 error  *)

\* the history counters stop at 2: the properties only tell 0, 1 and more
Capped(n) == IF n > 2 THEN 2 ELSE n

InitRaisesSwallowed(t, started) ==
    /\ db' = db
    /\ th' = [th EXCEPT ![t] = [started EXCEPT !.pc = AfterEnsure(started.kind)]]

\* line 105 raises: the exception leaves ensure_session and the handler, no
\* line after it runs
InitRaises(t, started) ==
    /\ \E f \in InitFailureFiles(db[started.path]) :
          db' = [db EXCEPT ![started.path] = f]
    /\ th' = th

Enter(t, h, raw_session, ok) ==
    LET session_key == sanitize_session(raw_session)
        path == db_path_for(session_key)
        sub == IF h.kind = "new_comment" THEN 1 ELSE 0
    IN  /\ th[t].pc = "idle"
        /\ hist.nevents < MaxEvents
        /\ \A u \in Threads : u < t => th[u].pc # "idle"
        /\ IF ok
           THEN /\ db' = [db EXCEPT ![path] = init_db_for(db[path])]
                /\ th' = [th EXCEPT ![t] = [h EXCEPT !.session_key = session_key,
                                                     !.path = path,
                                                     !.unseen = session_key \notin DOMAIN message_logs,
                                                     !.pc = "ensure_lock"]]
                /\ hist' = [hist EXCEPT !.nsub = @ + sub, !.nevents = @ + 1,
                                        !.subkey = IF sub = 1 THEN Append(@, session_key) ELSE @,
                                        !.init_calls[path] = Capped(@ + 1),
                                        !.creates[path] = Capped(@ + (IF Creates(db[path]) THEN 1 ELSE 0))]
           ELSE /\ InitRaises(t, [h EXCEPT !.session_key = session_key, !.path = path])
                /\ hist' = [hist EXCEPT !.nsub = @ + sub, !.nevents = @ + 1,
                                        !.subkey = IF sub = 1 THEN Append(@, session_key) ELSE @,
                                        !.creates[path] = Capped(@ + (IF db'[path] # db[path] THEN 1 ELSE 0))]

IndexBegin(t, q, ok) ==
    /\ Enter(t, [Idle EXCEPT !.kind = "index", !.conn = Http], ArgsSession(q), ok)
    /\ UNCHANGED <<message_logs, storage_lock, room, args, inbox, indicator, san>>

\* a connect handler that raises leaves the connection refused
ConnectBegin(t, c, q, ok) ==
    /\ ~args[c].open
    /\ \A d \in Conns : d < c => args[d].open
    /\ Enter(t, [Idle EXCEPT !.kind = "connect", !.conn = c], ArgsSession(q), ok)
    /\ args' = IF ok THEN [args EXCEPT ![c] = [open |-> TRUE, session |-> q]] ELSE args
    /\ UNCHANGED <<message_logs, storage_lock, room, inbox, indicator, san>>

HistoryRequestBegin(t, c, data, ok) ==
    /\ Connected(c)
    /\ Enter(t, [Idle EXCEPT !.kind = "history_request", !.conn = c],
             ResolveRaw(data, QueryOf(c)), ok)
    /\ UNCHANGED <<message_logs, storage_lock, room, args, inbox, indicator, san>>

NewCommentBegin(t, c, data, now, ok) ==
    /\ Connected(c)
    /\ Enter(t, [Idle EXCEPT !.kind = "new_comment", !.conn = c, !.data = data,
                             !.now_hhmm = now, !.sub = hist.nsub + 1,
                             !.explicit = data.session],
             ResolveRaw(data, QueryOf(c)), ok)
    /\ UNCHANGED <<message_logs, storage_lock, room, args, inbox, indicator, san>>

----------------------------------------------------------------------------
(* ensure_session, lines 106-109 *)

\* lines 106-107: the lock is taken and the key looked up; a key that is
\* present ends the with block at once
EnsureLock(t) ==
    /\ th[t].pc = "ensure_lock"
    /\ Acquires(t)
    /\ IF th[t].session_key \notin DOMAIN message_logs
       THEN /\ storage_lock' = t
            /\ th' = [th EXCEPT ![t].pc = "ensure_load"]
       ELSE /\ storage_lock' = storage_lock
            /\ th' = [th EXCEPT ![t].pc = AfterEnsure(th[t].kind)]
    /\ UNCHANGED <<message_logs, db, room, args, inbox, indicator, hist, san>>

\* line 108, then the with block ends
EnsureLoad(t) ==
    /\ th[t].pc = "ensure_load"
    /\ LET loaded == fetch_all_for(db[th[t].path])
       IN  /\ message_logs' = DictSet(message_logs, th[t].session_key, loaded)
           /\ hist' = [hist EXCEPT !.loads[th[t].session_key] = Capped(@ + 1),
                                   !.tag[th[t].session_key] = [i \in 1..Len(loaded) |-> 0]]
    /\ storage_lock' = NoThread
    /\ th' = [th EXCEPT ![t].pc = AfterEnsure(th[t].kind)]
    /\ UNCHANGED <<db, room, args, inbox, indicator, san>>

----------------------------------------------------------------------------
(* index, _on_connect, _on_history_request after ensure_session *)

\* line 165
JoinRoom(t) ==
    /\ th[t].pc = "join"
    /\ room' = [room EXCEPT ![th[t].conn] = @ \cup {th[t].session_key}]
    /\ th' = [th EXCEPT ![t].pc = "snapshot"]
    /\ UNCHANGED <<message_logs, storage_lock, db, args, inbox, indicator, hist, san>>

\* lines 152-153, 166-167, 179-180: the copy of the cached list under the
\* lock; a key that is not in the dict raises KeyError and ends the handler.
\* For the copy of a connect handler hist keeps the submissions it holds
\* and the number of broadcasts made before it
Snapshot(t) ==
    /\ th[t].pc = "snapshot"
    /\ Acquires(t)
    /\ IF th[t].session_key \in DOMAIN message_logs
       THEN /\ th' = [th EXCEPT ![t].msgs = message_logs[th[t].session_key],
                                ![t].pc = "respond"]
            /\ hist' = IF th[t].kind = "connect"
                       THEN [hist EXCEPT
                               !.snapped = @ \cup {th[t].conn},
                               !.joinsnap[th[t].conn] =
                                   {hist.tag[th[t].session_key][i] :
                                      i \in 1..Len(hist.tag[th[t].session_key])} \ {0},
                               !.snapat[th[t].conn] = Len(hist.bcasts)]
                       ELSE hist
            /\ UNCHANGED args
       ELSE /\ Finish(t)
            /\ hist' = [hist EXCEPT !.key_errors = 1]
            /\ args' = IF th[t].kind = "connect"
                       THEN [args EXCEPT ![th[t].conn] = Closed] ELSE args
    /\ UNCHANGED <<message_logs, storage_lock, db, room, inbox, indicator, san>>

HistoryReceiversWholeRoom(t) ==
    {th[t].conn} \cup {c \in Conns : th[t].session_key \in room[c]}

\* line 168 and line 181: emit("history", msgs) without broadcast or to
\* goes to the connection whose event is handled
HistoryReceivers(t) == {th[t].conn}

Deliver(to, event) == [c \in DOMAIN inbox |-> IF c \in to THEN Append(inbox[c], event) ELSE inbox[c]]

\* lines 154-159 (the page carries initial_messages), 168, 181
Respond(t) ==
    /\ th[t].pc = "respond"
    /\ inbox' = Deliver(HistoryReceivers(t),
                        [ev |-> IF th[t].kind = "index" THEN "page" ELSE "history",
                         msgs |-> th[t].msgs])
    /\ Finish(t)
    /\ UNCHANGED <<message_logs, storage_lock, db, room, args, indicator, hist, san>>

----------------------------------------------------------------------------
(* _on_new_comment after ensure_session, lines 192-213 *)

\* data.get("stamp") or data.get("stamp_filename")
RequestedStamp(data) ==
    LET a == StrGet(data.stamp, StrNone)
        b == StrGet(data.stamp_filename, StrNone)
    IN  IF StrTruthy(a) THEN a ELSE b

BuildEntryDropsText(data, now_hhmm, folder) ==
    LET asked == RequestedStamp(data)
        requested_stamp == IF asked \notin list_stamps(folder) THEN StrNone ELSE asked
    IN  [name |-> StrGet(data.name, NanashiName),
         real_name |-> StrGet(data.real_name, ""),
         text |-> IF ~StrTruthy(asked) THEN StrGet(data.text, "") ELSE "",
         time |-> now_hhmm,
         stamp |-> requested_stamp,
         stamp_url |-> StampUrl(requested_stamp)]

BuildEntryUnchecked(data, now_hhmm, folder) ==
    LET requested_stamp == RequestedStamp(data)
    IN  [name |-> StrGet(data.name, NanashiName),
         real_name |-> StrGet(data.real_name, ""),
         text |-> IF ~StrTruthy(requested_stamp) THEN StrGet(data.text, "") ELSE "",
         time |-> now_hhmm,
         stamp |-> requested_stamp,
         stamp_url |-> StampUrl(requested_stamp)]

\* lines 192-205: the entry built from the payload and the stamp folder
BuildEntry(data, now_hhmm, folder) ==
    LET asked == RequestedStamp(data)
        requested_stamp == IF asked \notin list_stamps(folder) THEN StrNone ELSE asked
    IN  [name |-> StrGet(data.name, NanashiName),
         real_name |-> StrGet(data.real_name, ""),
         text |-> IF ~StrTruthy(requested_stamp) THEN StrGet(data.text, "") ELSE "",
         time |-> now_hhmm,
         stamp |-> requested_stamp,
         stamp_url |-> StampUrl(requested_stamp)]

\* lines 192-199 for a payload that is no dict: data.get raises at line 199
BuildRaises(t) ==
    /\ th[t].pc = "build"
    /\ ~th[t].data.is_dict
    /\ Finish(t)
    /\ UNCHANGED <<message_logs, storage_lock, db, room, args, inbox, indicator, hist, san>>

\* lines 192-207: the entry is built and appended to the cached list under
\* the lock; hist.listed keeps the submissions whose stamp the listing of
\* line 195 held
BuildAppend(t, folder) ==
    /\ th[t].pc = "build"
    /\ th[t].data.is_dict
    /\ Acquires(t)
    /\ LET entry == BuildEntry(th[t].data, th[t].now_hhmm, folder)
       IN  IF th[t].session_key \in DOMAIN message_logs
           THEN /\ message_logs' = [message_logs EXCEPT ![th[t].session_key] = Append(@, entry)]
                /\ hist' = [hist EXCEPT !.tag[th[t].session_key] = Append(@, th[t].sub),
                                        !.listed = IF RequestedStamp(th[t].data) \in list_stamps(folder)
                                                   THEN @ \cup {th[t].sub} ELSE @]
                /\ th' = [th EXCEPT ![t].entry = entry, ![t].pc = "insert",
                                    ![t].now_hhmm = <<>>]
           ELSE /\ Finish(t)
                /\ hist' = [hist EXCEPT !.key_errors = 1]
                /\ UNCHANGED message_logs
    /\ UNCHANGED <<storage_lock, db, room, args, inbox, indicator, san>>

\* the file line 208 writes to
InsertPath(t) == th[t].path

\* line 208: the insert commits
Insert(t) ==
    /\ th[t].pc = "insert"
    /\ Bindable(th[t].entry)
    /\ db' = [db EXCEPT ![InsertPath(t)] = insert_comment_for(@, th[t].entry)]
    /\ hist' = [hist EXCEPT !.appends[InsertPath(t)] =
                                Append(@, [sub |-> th[t].sub, entry |-> th[t].entry]),
                            !.issued = @ \cup {th[t].sub}]
    /\ th' = [th EXCEPT ![t].pc = "emit"]
    /\ UNCHANGED <<message_logs, storage_lock, room, args, inbox, indicator, san>>

\* line 208 raises: a parameter sqlite3 cannot bind, or the write itself
\* fails (disk full, file locked); nothing after line 208 runs
InsertFails(t) ==
    /\ th[t].pc = "insert"
    /\ hist' = [hist EXCEPT !.failed = @ \cup {th[t].sub},
                            !.issued = @ \cup {th[t].sub}]
    /\ Finish(t)
    /\ UNCHANGED <<message_logs, storage_lock, db, room, args, inbox, indicator, san>>

EveryConnection(t) == Conns

RoomOfConnected(t) == {c \in Conns : th[t].session_key \in room[c] /\ Connected(c)}

RoomWithoutSender(t) == {c \in Conns : th[t].session_key \in room[c]} \ {th[t].conn}

\* to=session_key: the connections join_room put in that room
RoomMembers(t) == {c \in Conns : th[t].session_key \in room[c]}

\* line 209
Emit(t) ==
    /\ th[t].pc = "emit"
    /\ inbox' = Deliver(RoomMembers(t), [ev |-> "new_comment", msgs |-> <<th[t].entry>>])
    /\ hist' = [hist EXCEPT !.bcasts = Append(@, [sub |-> th[t].sub,
                                                   key |-> th[t].session_key,
                                                   conn |-> th[t].conn,
                                                   explicit |-> th[t].explicit,
                                                   to |-> RoomMembers(t)])]
    /\ Finish(t)
    /\ UNCHANGED <<message_logs, storage_lock, db, room, args, indicator, san>>

----------------------------------------------------------------------------
(* _tick of the status window, lines 132-138 *)

RECURSIVE SumLen(_, _)
SumLen(d, ks) ==
    IF ks = {} THEN 0
    ELSE LET k == CHOOSE x \in ks : TRUE IN Len(d[k]) + SumLen(d, ks \ {k})

\* one firing of the timer: the sums are taken under the lock and shown
Tick ==
    /\ hist.nevents < MaxEvents
    /\ storage_lock = NoThread
    /\ indicator' = [total_msgs |-> SumLen(message_logs, DOMAIN message_logs),
                     session_count |-> Cardinality(DOMAIN message_logs)]
    /\ hist' = [hist EXCEPT !.nevents = @ + 1]
    /\ UNCHANGED <<message_logs, storage_lock, db, room, args, inbox, th, san>>

----------------------------------------------------------------------------

HistoryPayloads == {NotADict, Payload(RoomA_raw, StrMissing, StrMissing, StrMissing)}

Next ==
    \/ \E t \in Threads, q \in PageSessions, ok \in BOOLEAN : IndexBegin(t, q, ok)
    \/ \E t \in Threads, c \in Conns, q \in QuerySessions, ok \in BOOLEAN :
          ConnectBegin(t, c, q, ok)
    \/ \E t \in Threads, c \in Conns, data \in HistoryPayloads, ok \in BOOLEAN :
          HistoryRequestBegin(t, c, data, ok)
    \/ \E t \in Threads, c \in Conns, data \in Payloads, now \in NowValues, ok \in BOOLEAN :
          NewCommentBegin(t, c, data, now, ok)
    \/ \E t \in Threads : EnsureLock(t)
    \/ \E t \in Threads : EnsureLoad(t)
    \/ \E t \in Threads : JoinRoom(t)
    \/ \E t \in Threads : Snapshot(t)
    \/ \E t \in Threads : Respond(t)
    \/ \E t \in Threads : BuildRaises(t)
    \/ \E t \in Threads, folder \in Folders : BuildAppend(t, folder)
    \/ \E t \in Threads : Insert(t)
    \/ \E t \in Threads : InsertFails(t)
    \/ \E t \in Threads : Emit(t)
    \/ Tick

Spec == Init /\ [][Next]_vars

\* a handler thread that has returned from line 208 is not blocked: line 209
\* takes no lock and waits for nothing, so the thread goes on to it
FairSpec == Spec /\ \A t \in Threads : WF_vars(Emit(t))

----------------------------------------------------------------------------
(* The sanitizer on its own: SanSpec feeds sanitize_session a raw string    *)
(* and then feeds it its own result                                        *)

SanAlphabet == {"a", "_", "-", "!", " "}

RECURSIVE Rep(_, _)
Rep(c, n) == IF n = 0 THEN <<>> ELSE <<c>> \o Rep(c, n - 1)

SanTails == UNION {[1..n -> SanAlphabet] : n \in 0..MaxTail}

\* a run of one character followed by a short free tail, and None
SanInputs ==
    {Rep(c, n) \o tl : c \in SanAlphabet, n \in 0..MaxRun, tl \in SanTails} \cup {None}

SanInit ==
    /\ message_logs = [k \in {} |-> <<>>]
    /\ storage_lock = NoThread
    /\ db \in InitialDbs
    /\ room = [c \in Conns |-> {}]
    /\ args = [c \in Conns |-> Closed]
    /\ inbox = [c \in Conns \cup {Http} |-> <<>>]
    /\ th = [t \in Threads |-> Idle]
    /\ indicator = [total_msgs |-> 0, session_count |-> 0]
    /\ hist = [nsub |-> 0, nevents |-> 0]
    /\ \E x \in SanInputs : san = [pc |-> "raw", x |-> x, y |-> <<>>, z |-> <<>>]

SanitizeRaw ==
    /\ san.pc = "raw"
    /\ san' = [san EXCEPT !.pc = "once", !.y = sanitize_session(san.x)]
    /\ UNCHANGED <<message_logs, storage_lock, db, room, args, inbox, th, indicator, hist>>

SanitizeKey ==
    /\ san.pc = "once"
    /\ san' = [san EXCEPT !.pc = "twice", !.z = sanitize_session(san.y)]
    /\ UNCHANGED <<message_logs, storage_lock, db, room, args, inbox, th, indicator, hist>>

SanNext == SanitizeRaw \/ SanitizeKey

SanSpec == SanInit /\ [][SanNext]_vars

----------------------------------------------------------------------------
(* Claims *)

\* the submissions in a list of history records, in order
Subs(log) == [i \in 1..Len(log) |-> log[i].sub]

\* the place of n in a list of numbers, 0 when it is not there
Pos(log, n) ==
    IF \E i \in 1..Len(log) : log[i] = n
    THEN CHOOSE i \in 1..Len(log) : log[i] = n /\ \A j \in 1..(i - 1) : log[j] # n
    ELSE 0

IsPrefix(a, b) == Len(a) <= Len(b) /\ SubSeq(b, 1, Len(a)) = a

\* a Submit for key k is between its first and its last line
SubmitInFlight(k) ==
    \E t \in Threads : th[t].kind = "new_comment" /\ th[t].session_key = k

\* the thread that takes the step, if a handler thread does
Steps(t) == th'[t] # th[t]

\* C1: of two messages broadcast in one session, the one broadcast first is
\* the one whose durable append completed first
C1_BroadcastOrderIsAppendOrder ==
    \A i, j \in 1..Len(hist.bcasts) :
        (i < j /\ hist.bcasts[i].key = hist.bcasts[j].key)
        => LET log == Subs(hist.appends[db_path_for(hist.bcasts[i].key)])
           IN  Pos(log, hist.bcasts[i].sub) < Pos(log, hist.bcasts[j].sub)

\* C2: while no Submit for a session is in flight, its cached list is what a
\* load of its store returns
C2_CacheEqualsStore ==
    \A k \in DOMAIN message_logs :
        ~SubmitInFlight(k) => message_logs[k] = fetch_all_for(db[db_path_for(k)])

\* C3: every message a Submit put in a cached list has had its durable write
\* issued
C3_CachedOnlyAfterWriteIssued ==
    \A k \in Keys : \A i \in 1..Len(hist.tag[k]) :
        hist.tag[k][i] # 0 => hist.tag[k][i] \in hist.issued

\* C4: a Submit whose durable write failed left no message in a cached list
\* and was not broadcast
C4_FailedWriteAbortsAppend ==
    \A n \in hist.failed :
        /\ \A k \in Keys : Pos(hist.tag[k], n) = 0
        /\ \A i \in 1..Len(hist.bcasts) : hist.bcasts[i].sub # n

\* the history list stands for the cached list, entry by entry
TagsMatchCache ==
    \A k \in Keys :
        Len(hist.tag[k]) = (IF k \in DOMAIN message_logs THEN Len(message_logs[k]) ELSE 0)

\* C5: the persisted messages of a key are loaded into the cache at most
\* once, two threads are never both in the load of one key, and a cached
\* list is never replaced: it stays in the dict and only grows at its end
C5_LoadedAtMostOnce ==
    /\ [](/\ \A k \in Keys : hist.loads[k] <= 1
          /\ \A t, u \in Threads :
                (t # u /\ th[t].pc = "ensure_load" /\ th[u].pc = "ensure_load")
                => th[t].session_key # th[u].session_key)
    /\ [][\A k \in DOMAIN message_logs :
            /\ k \in DOMAIN message_logs'
            /\ IsPrefix(message_logs[k], message_logs'[k])]_vars

\* two handlers began while the key was not cached, both are past
\* ensure_session, and the key has been loaded once
C5_Witness ==
    \E t, u \in Threads :
        /\ th[t].unseen /\ th[u].unseen /\ t # u
        /\ th[t].session_key = th[u].session_key
        /\ th[t].pc \notin {"idle", "ensure_lock", "ensure_load"}
        /\ th[u].pc \notin {"idle", "ensure_lock", "ensure_load"}
        /\ hist.loads[th[t].session_key] = 1

\* two handlers that both began while key k was not cached are both past
\* ensure_session
BothFirstReferencesDone(t, u) ==
    /\ t # u
    /\ th[t].unseen /\ th[u].unseen
    /\ th[t].session_key = th[u].session_key
    /\ th[t].pc \notin {"idle", "ensure_lock", "ensure_load"}
    /\ th[u].pc \notin {"idle", "ensure_lock", "ensure_load"}

\* C6 as claimed: two simultaneous first ensure calls of a key run
\* init_db_for once for it and load one cached list
C6_OneInitExecution ==
    \A t, u \in Threads :
        BothFirstReferencesDone(t, u)
        => /\ hist.init_calls[th[t].path] = 1
           /\ hist.loads[th[t].session_key] = 1

\* C6 as amended: two simultaneous first ensure calls of a key each run
\* init_db_for, the table is created at most once, and one cached list is
\* loaded
C6_OneCreationOneLoad ==
    \A t, u \in Threads :
        BothFirstReferencesDone(t, u)
        => /\ hist.init_calls[th[t].path] >= 2
           /\ hist.creates[th[t].path] <= 1
           /\ hist.loads[th[t].session_key] = 1
           /\ th[t].session_key \in DOMAIN message_logs

\* both first references are through, on a key whose file had no table
C6_Witness ==
    \E t, u \in Threads :
        /\ BothFirstReferencesDone(t, u)
        /\ hist.creates[th[t].path] = 1

\* the key the handshake of connection c resolves to
JoinedKey(c) == sanitize_session(ArgsSession(args[c].session))

\* the key and the kind of the handler whose thread t takes the step
StepKey(t) == IF th[t].pc = "idle" THEN th'[t].session_key ELSE th[t].session_key
StepKind(t) == IF th[t].pc = "idle" THEN th'[t].kind ELSE th[t].kind

\* the submissions whose message is in the store file of key k
StoredSubs(k) == {hist.appends[db_path_for(k)][i].sub : i \in 1..Len(hist.appends[db_path_for(k)])}

\* the submissions whose message is in the cached list of key k
CachedSubs(k) == {hist.tag[k][i] : i \in 1..Len(hist.tag[k])} \ {0}

\* C7: sessions are isolated. A connection is in the room of the sanitized
\* name it joined with ("Room A!!" in Room_A, "" in default); a message
\* submitted to one key is in the cache and the store of that key only; a
\* step of a Submit for key k leaves the cache and the store of every other
\* key and the inbox of every connection outside room k as they are; and the
\* history a join sends is the cached list of the joined key
C7_SessionsIsolated ==
    /\ [](/\ \A c \in Conns :
               /\ room[c] \subseteq {JoinedKey(c)}
               /\ (args[c].session = RoomA_raw /\ room[c] # {}) => room[c] = {RoomA}
               /\ (args[c].session = <<>> /\ room[c] # {}) => room[c] = {DefaultKey}
          /\ \A k \in Keys : \A n \in CachedSubs(k) \cup StoredSubs(k) :
               hist.subkey[n] = k)
    /\ [][\A t \in Threads :
            /\ (Steps(t) /\ StepKind(t) = "new_comment")
               => /\ \A k \in Keys \ {StepKey(t)} :
                       /\ db'[db_path_for(k)] = db[db_path_for(k)]
                       /\ k \in DOMAIN message_logs
                          => (k \in DOMAIN message_logs' /\ message_logs'[k] = message_logs[k])
                       /\ k \notin DOMAIN message_logs => k \notin DOMAIN message_logs'
                  /\ \A c \in Conns : StepKey(t) \notin room[c] => inbox'[c] = inbox[c]
            /\ (Steps(t) /\ th[t].kind = "connect" /\ th[t].pc = "snapshot"
                         /\ th'[t].pc = "respond")
               => th'[t].msgs = message_logs[JoinedKey(th[t].conn)]
            /\ (Steps(t) /\ th[t].kind = "connect" /\ th[t].pc = "respond")
               => inbox'[th[t].conn] =
                     Append(inbox[th[t].conn], [ev |-> "history", msgs |-> th[t].msgs])
          ]_vars

\* one connection joined "Room A!!", another "", both got their history, and
\* a message was broadcast in one of the two rooms
C7_Witness ==
    /\ \E c, d \in Conns :
          /\ args[c].session = RoomA_raw /\ room[c] = {RoomA}
          /\ args[d].session = <<>> /\ room[d] = {DefaultKey}
          /\ Len(inbox[c]) >= 1 /\ Len(inbox[d]) >= 1
    /\ Len(hist.bcasts) >= 1

\* C8 as claimed: every message a connection submits is appended and
\* broadcast in the room that connection joined
C8_SendsOnlyToJoinedRoom ==
    /\ \A i \in 1..Len(hist.bcasts) : hist.bcasts[i].key \in room[hist.bcasts[i].conn]
    /\ \A t \in Threads :
          (th[t].kind = "new_comment" /\ th[t].pc \in {"insert", "emit"})
          => th[t].session_key \in room[th[t].conn]

\* C8 as amended: a connection is in the one room it joined and in no other;
\* a Submit whose payload carries a non-empty session goes to the room of
\* that session, sanitized, and every other Submit to the room its
\* connection joined
C8_RoomOfSubmit ==
    /\ \A c \in Conns : room[c] \subseteq {JoinedKey(c)}
    /\ \A t \in Threads :
          (th[t].kind = "new_comment" /\ th[t].pc \in {"insert", "emit"})
          => /\ th[t].session_key = (IF Truthy(th[t].explicit)
                                     THEN sanitize_session(th[t].explicit)
                                     ELSE JoinedKey(th[t].conn))
             /\ hist.subkey[th[t].sub] = th[t].session_key
             /\ ~Truthy(th[t].explicit) => room[th[t].conn] = {th[t].session_key}
    /\ \A i \in 1..Len(hist.bcasts) :
          LET b == hist.bcasts[i]
          IN  /\ b.key = (IF Truthy(b.explicit) THEN sanitize_session(b.explicit)
                                                ELSE JoinedKey(b.conn))
              /\ b.to \subseteq {c \in Conns : JoinedKey(c) = b.key}

\* a connection that joined the default room has broadcast a message with an
\* explicit session in its payload: it went to Room_A
C8_Witness ==
    \E i \in 1..Len(hist.bcasts) :
        /\ Truthy(hist.bcasts[i].explicit)
        /\ room[hist.bcasts[i].conn] = {DefaultKey}
        /\ hist.bcasts[i].key = RoomA

\* the entries a list of append records carries
Entries(log) == [i \in 1..Len(log) |-> log[i].entry]

\* C9: a load of a session's store returns what the store held at the start
\* followed by the entries of the completed inserts into it, in the order the
\* inserts completed, whatever was inserted into other stores meanwhile
C9_LoadReturnsAppendsInOrder ==
    \A p \in Paths :
        fetch_all_for(db[p]) = fetch_all_for(hist.db0[p]) \o Entries(hist.appends[p])

\* inserts into two different stores have completed while both Submits were
\* still running, one of them into the store that already held a row
C9_Witness ==
    \E t, u \in Threads :
        /\ th[t].pc = "emit" /\ th[u].pc = "emit"
        /\ th[t].path # th[u].path
        /\ Len(hist.appends[th[t].path]) >= 1 /\ Len(hist.appends[th[u].path]) >= 1
        /\ Len(fetch_all_for(db[th[t].path])) >= 2

\* C10: sanitize_session is idempotent: sanitizing a sanitized key gives the
\* same key, also when the 64-character cut applied
C10_Idempotent == san.pc = "twice" => san.z = san.y

\* the raw string read from its end: a character of the class stays, a
\* character outside it gives "_" unless the character before it is outside
\* the class too
RECURSIVE RunsAsUnderscore(_)
RunsAsUnderscore(x) ==
    IF x = <<>> THEN <<>>
    ELSE LET n == Len(x)
             front == RunsAsUnderscore(SubSeq(x, 1, n - 1))
         IN  IF x[n] \in KeyChars THEN Append(front, x[n])
             ELSE IF n > 1 /\ x[n - 1] \notin KeyChars THEN front
             ELSE Append(front, "_")

\* s without the "_" at its two ends
WithoutOuterUnderscores(s) ==
    LET inner == {i \in 1..Len(s) : s[i] # "_"}
    IN  IF inner = {} THEN <<>>
        ELSE LET lo == CHOOSE i \in inner : \A j \in inner : i <= j
                 hi == CHOOSE i \in inner : \A j \in inner : j <= i
             IN  [i \in 1..(hi - lo + 1) |-> s[lo + i - 1]]

\* the key the specification describes for a raw string
DescribedKey(x) ==
    IF x = None \/ x = <<>> THEN DefaultKey
    ELSE LET s == WithoutOuterUnderscores(RunsAsUnderscore(x))
         IN  IF s = <<>> THEN DefaultKey
             ELSE [i \in 1..(IF Len(s) > MaxKeyLen THEN MaxKeyLen ELSE Len(s)) |-> s[i]]

\* C11: the key of a raw string is not empty, has at most 64 characters, all
\* of them in [A-Za-z0-9_-]; it is the raw string with every run of other
\* characters turned into one "_", the "_" at both ends taken off and the
\* rest cut to 64 characters, and it is "default" when nothing is left or
\* the raw string is empty or absent
C11_KeyIsAsDescribed ==
    san.pc # "raw" =>
        /\ san.y # <<>>
        /\ Len(san.y) <= MaxKeyLen
        /\ \A i \in 1..Len(san.y) : san.y[i] \in KeyChars
        /\ san.y = DescribedKey(san.x)
        /\ (san.x # None /\ \A i \in 1..Len(san.x) : san.x[i] \notin KeyChars)
           => san.y = DefaultKey

\* a raw string with characters outside the class whose key was cut to 64
\* characters has been sanitized
C11_Witness ==
    /\ san.pc # "raw"
    /\ san.x # None
    /\ \E i \in 1..Len(san.x) : san.x[i] \notin KeyChars
    /\ Len(san.x) > MaxKeyLen
    /\ Len(san.y) = MaxKeyLen

\* thread t handles a Submit whose payload names a stamp that the listing
\* taken at line 195 did not hold, and is past line 207
StaleStamp(t) ==
    /\ th[t].pc \in {"insert", "emit"}
    /\ StrTruthy(RequestedStamp(th[t].data))
    /\ th[t].sub \notin hist.listed

\* the row line 208 adds for an entry
RowOf(id, entry) ==
    [id |-> id, name |-> entry.name, real_name |-> entry.real_name,
     text |-> entry.text, time |-> entry.time, stamp_filename |-> entry.stamp]

\* C12: a Submit whose stamp is not in the current listing is accepted all
\* the same: the handler does not end at the check, the entry it appends to
\* the cached list, writes and broadcasts has stamp and stamp_url cleared
\* and carries the submitted text
C12_StaleStampAccepted ==
    /\ [](\A t \in Threads : StaleStamp(t) =>
            /\ th[t].entry.stamp = StrNone
            /\ th[t].entry.stamp_url = StrNone
            /\ th[t].entry.text = StrGet(th[t].data.text, "")
            /\ \E i \in 1..Len(message_logs[th[t].session_key]) :
                  /\ hist.tag[th[t].session_key][i] = th[t].sub
                  /\ message_logs[th[t].session_key][i] = th[t].entry)
    /\ [][\A t \in Threads :
            /\ (th[t].pc = "build" /\ Steps(t) /\ th[t].data.is_dict
                /\ StrTruthy(RequestedStamp(th[t].data))
                /\ th[t].sub \notin hist'.listed)
               => th'[t].pc = "insert"
            /\ (StaleStamp(t) /\ th[t].pc = "insert" /\ th'[t].pc = "emit")
               => \E r \in db'[th[t].path].rows :
                     /\ r \notin db[th[t].path].rows
                     /\ r = RowOf(r.id, th[t].entry)
                     /\ r.stamp_filename = StrNone
            /\ (StaleStamp(t) /\ th[t].pc = "emit" /\ Steps(t))
               => \A c \in Conns : th[t].session_key \in room[c] =>
                     inbox'[c] = Append(inbox[c], [ev |-> "new_comment",
                                                   msgs |-> <<th[t].entry>>])
         ]_vars

\* a Submit with a text and a stamp that is not listed is about to be
\* broadcast to a room that has a member
C12_Witness ==
    \E t \in Threads :
        /\ StaleStamp(t)
        /\ th[t].pc = "emit"
        /\ th[t].entry.text = "hi"
        /\ \E c \in Conns : th[t].session_key \in room[c]

\* stamp_url is null exactly when stamp is, and an entry with a stamp has
\* an empty text
WellStamped(e) ==
    /\ e.stamp_url = StrNone <=> e.stamp = StrNone
    /\ e.stamp # StrNone => e.text = ""

\* C20: for every entry a Submit created, stamp_url is null exactly when
\* stamp is null, a stamp that is not null is the requested name and was in
\* the listing taken during that Submit, and an entry with a stamp has the
\* empty text
C20_StampFieldsConsistent ==
    /\ \A t \in Threads : th[t].pc \in {"insert", "emit"} =>
          /\ WellStamped(th[t].entry)
          /\ th[t].entry.stamp # StrNone =>
                /\ th[t].sub \in hist.listed
                /\ th[t].entry.stamp = RequestedStamp(th[t].data)
    /\ \A k \in DOMAIN message_logs : \A i \in 1..Len(message_logs[k]) :
          hist.tag[k][i] # 0 =>
             /\ WellStamped(message_logs[k][i])
             /\ message_logs[k][i].stamp # StrNone => hist.tag[k][i] \in hist.listed
    /\ \A p \in Paths : \A i \in 1..Len(hist.appends[p]) :
          /\ WellStamped(hist.appends[p][i].entry)
          /\ hist.appends[p][i].entry.stamp # StrNone => hist.appends[p][i].sub \in hist.listed

\* a Submit with a listed stamp and a Submit without a stamp are both in a
\* cached list
C20_Witness ==
    \E k \in DOMAIN message_logs : \E i, j \in 1..Len(message_logs[k]) :
        /\ hist.tag[k][i] # 0 /\ hist.tag[k][j] # 0
        /\ message_logs[k][i].stamp # StrNone
        /\ message_logs[k][j].stamp = StrNone

\* the new_comment events of a sequence of events
NewComments(events) == SelectSeq(events, LAMBDA e : e.ev = "new_comment")

\* C13: the message of a Submit whose write succeeded is in the end
\* delivered as new_comment, once, to every connection that is in room k
\* when line 209 runs, the sender included when it is in room k, and to no
\* other connection
C13_BroadcastReachesRoom ==
    /\ \A n \in 1..MaxEvents :
          (\E t \in Threads : th[t].pc = "emit" /\ th[t].sub = n)
             ~> (\E i \in 1..Len(hist.bcasts) : hist.bcasts[i].sub = n)
    /\ [](\A i, j \in 1..Len(hist.bcasts) :
             hist.bcasts[i].sub = hist.bcasts[j].sub => i = j)
    /\ [][/\ \A t \in Threads : (th[t].pc = "emit" /\ Steps(t)) =>
                /\ \A c \in Conns :
                      inbox'[c] = IF th[t].session_key \in room[c]
                                  THEN Append(inbox[c], [ev |-> "new_comment",
                                                         msgs |-> <<th[t].entry>>])
                                  ELSE inbox[c]
                /\ Len(hist'.bcasts) = Len(hist.bcasts) + 1
                /\ hist'.bcasts[Len(hist'.bcasts)].sub = th[t].sub
          /\ \A c \in Conns : NewComments(inbox'[c]) # NewComments(inbox[c]) =>
                \E t \in Threads : th[t].pc = "emit" /\ Steps(t)
         ]_vars

\* a message was delivered to its sender, which is in the room, while a
\* connection that joined another room received no new_comment
C13_Witness ==
    \E i \in 1..Len(hist.bcasts) : \E c \in Conns :
        /\ hist.bcasts[i].key \in room[hist.bcasts[i].conn]
        /\ Len(NewComments(inbox[hist.bcasts[i].conn])) = 1
        /\ room[c] # {} /\ hist.bcasts[i].key \notin room[c]
        /\ NewComments(inbox[c]) = <<>>

\* the history events of a sequence of events
Histories(events) == SelectSeq(events, LAMBDA e : e.ev = "history")

\* C14: a step of a connect or history_request handler changes no inbox but
\* the one of the connection it serves, and that one only by a history
\* event at its end; it leaves every cached list as it is (a list it adds
\* for a key is the stored sequence of that key) and changes the rows of no
\* file
C14_HistoryOnlyToRequester ==
    [][\A t \in Threads :
          (Steps(t) /\ StepKind(t) \in {"connect", "history_request"}) =>
             /\ \A c \in DOMAIN inbox :
                   \/ inbox'[c] = inbox[c]
                   \/ /\ c = th[t].conn
                      /\ inbox'[c] = Append(inbox[c], [ev |-> "history",
                                                       msgs |-> th[t].msgs])
             /\ \A k \in DOMAIN message_logs :
                   k \in DOMAIN message_logs' /\ message_logs'[k] = message_logs[k]
             /\ \A k \in DOMAIN message_logs' \ DOMAIN message_logs :
                   message_logs'[k] = fetch_all_for(db[db_path_for(k)])
             /\ \A p \in Paths : db'[p].rows = db[p].rows
      ]_vars

\* two connections are in the same room; one of them asked for the history
\* again and has two history events, the other still has one
C14_Witness ==
    \E c, d \in Conns :
        /\ c # d /\ room[c] # {} /\ room[c] = room[d]
        /\ Len(Histories(inbox[c])) = 2
        /\ Len(Histories(inbox[d])) = 1

\* the history of key k in the files the run started with
PriorHistory(k) == fetch_all_for(hist.db0[db_path_for(k)])

\* the entry submission n wrote to file p
WrittenEntry(p, n) ==
    hist.appends[p][CHOOSE i \in 1..Len(hist.appends[p]) : hist.appends[p][i].sub = n].entry

\* the messages of the submissions to k whose write succeeded, in the order
\* of their appends to the cached list
SubmittedMessages(k) ==
    LET done == SelectSeq(hist.tag[k], LAMBDA n : n # 0 /\ n \notin hist.failed)
    IN  [i \in 1..Len(done) |-> WrittenEntry(db_path_for(k), done[i])]

\* C15: the history a history_request for k copies while no Submit to k is
\* running is the prior history of k followed by exactly the messages
\* submitted to k, each once, in the order of their appends
C15_HistoryIsPriorPlusSubmitted ==
    [][\A t \in Threads :
          (/\ th[t].pc = "snapshot" /\ th[t].kind = "history_request"
           /\ th'[t].pc = "respond"
           /\ ~SubmitInFlight(th[t].session_key))
          => th'[t].msgs = PriorHistory(th[t].session_key)
                             \o SubmittedMessages(th[t].session_key)
      ]_vars

\* C16: no step edits or deletes a message: every cached list stays in the
\* dict and is a prefix of what it is after the step, and so are the rows
\* of every file taken in id order
C16_AppendOnly ==
    [][/\ \A k \in DOMAIN message_logs :
             /\ k \in DOMAIN message_logs'
             /\ IsPrefix(message_logs[k], message_logs'[k])
       /\ \A p \in Paths :
             IsPrefix(OrderByIdAsc(db[p].rows), OrderByIdAsc(db'[p].rows))
      ]_vars

\* a session whose file had a row has taken two more messages, in the
\* cached list and in the file
C16_Witness ==
    \E k \in DOMAIN message_logs :
        /\ hist.db0[db_path_for(k)].rows # {}
        /\ Len(message_logs[k]) >= 3
        /\ Cardinality(db[db_path_for(k)].rows) >= 3

\* a handler begins and init_db_for raises in its ensure_session call
InitFailureStep ==
    \E t \in Threads :
        \/ \E q \in PageSessions : IndexBegin(t, q, FALSE)
        \/ \E c \in Conns, q \in QuerySessions : ConnectBegin(t, c, q, FALSE)
        \/ \E c \in Conns, data \in HistoryPayloads : HistoryRequestBegin(t, c, data, FALSE)
        \/ \E c \in Conns, data \in Payloads, now \in NowValues :
              NewCommentBegin(t, c, data, now, FALSE)

\* C17: when init_db_for fails in the ensure of a key the operation is
\* abandoned: no handler thread goes on, the dict of cached lists is
\* exactly what it was (no list for the key, no other list touched),
\* nothing is sent, no room changes and the lock stays free or with its
\* holder, so that later operations can go on
C17_InitFailureLeavesCache ==
    /\ [][InitFailureStep =>
             /\ message_logs' = message_logs
             /\ th' = th
             /\ inbox' = inbox
             /\ room' = room
             /\ storage_lock' = storage_lock
         ]_vars
    /\ [](storage_lock # NoThread => th[storage_lock].pc = "ensure_load")

\* a Submit to Room_A was abandoned in init_db_for and left no cached list
\* for Room_A; a later Submit to default was cached after the stored row
\* and broadcast to a connection
C17_Witness ==
    \E n \in 1..Len(hist.subkey) :
        /\ hist.subkey[n] = RoomA
        /\ RoomA \notin DOMAIN message_logs
        /\ \A t \in Threads : th[t].sub # n
        /\ DefaultKey \in DOMAIN message_logs
        /\ Len(message_logs[DefaultKey]) = 2
        /\ \E i \in 1..Len(hist.bcasts) :
              /\ hist.bcasts[i].sub > n
              /\ hist.bcasts[i].key = DefaultKey
              /\ hist.bcasts[i].to # {}

\* C18: a connection that joins room k misses no message: once its connect
\* handler has copied the cached list of k, every message broadcast in k
\* is in that copy or was broadcast after the copy was taken and sent to
\* the connection
C18_JoinMissesNothing ==
    \A c \in hist.snapped : \A i \in 1..Len(hist.bcasts) :
        hist.bcasts[i].key \in room[c] =>
            \/ hist.bcasts[i].sub \in hist.joinsnap[c]
            \/ i > hist.snapat[c] /\ c \in hist.bcasts[i].to

\* a message was appended and broadcast between the copy of the cached
\* list by the connect handler of c and the history event of that handler
C18_Witness ==
    \E c \in hist.snapped : \E i \in 1..Len(hist.bcasts) : \E t \in Threads :
        /\ th[t].kind = "connect" /\ th[t].conn = c /\ th[t].pc = "respond"
        /\ hist.bcasts[i].key \in room[c]
        /\ hist.bcasts[i].sub \notin hist.joinsnap[c]
        /\ c \in hist.bcasts[i].to
        /\ Len(NewComments(inbox[c])) = 1

\* C19: a key that is in message_logs stays in it, and no handler finds its
\* key missing when it reads or appends after ensure_session: no access
\* raises KeyError, and a thread past ensure_session has its key in the dict
C19_RegistryOnlyGrows ==
    /\ [](hist.key_errors = 0)
    /\ [](\A t \in Threads :
             th[t].pc \in {"join", "snapshot", "respond", "build", "insert", "emit"}
                => th[t].session_key \in DOMAIN message_logs)
    /\ [][DOMAIN message_logs \subseteq DOMAIN message_logs']_vars

\* both keys are cached, each loaded once, and a handler that is past
\* ensure_session is about to read its list or append to it
C19_Witness ==
    /\ DOMAIN message_logs = Keys
    /\ \E t \in Threads :
          /\ th[t].pc \in {"snapshot", "build"}
          /\ hist.loads[th[t].session_key] = 1
          /\ \E k \in Keys : k # th[t].session_key /\ hist.loads[k] = 1

====
